---- MODULE Spec2Model ----
(***************************************************************************)
(* The Ingredient model layer of node-neo4j-template                       *)
(* (src/models/ingredient.js) over a Neo4j store of :Ingredient nodes and  *)
(* :follows relationships.                                                 *)
(*                                                                         *)
(* Every Cypher query is one transaction of the database and is modelled   *)
(* as one atomic step together with the callback that receives its         *)
(* outcome.  A call reads the name of its handle when it is made and only  *)
(* a patch callback on the same handle changes it, so callers racing each  *)
(* other are the interleavings of such steps issued through different      *)
(* handles, which may have become stale.  The store starts empty, with or  *)
(* without the uniqueness constraint, while the createConstraint request   *)
(* sent at module load is still in flight.                                 *)
(*                                                                         *)
(* Spec is the model layer under arbitrary callers.  RouteSpec is the       *)
(* create and edit routes (src/routes/ingredients.js) as its callers, and  *)
(* ValidatorSpec applies validateProp to values of every length class.     *)
(*                                                                         *)
(* `last` records the call of the running JS task (run to completion):     *)
(* what was called, with what, what it delivered, and the store and        *)
(* handles it started from.  No operation reads it.                        *)
(***************************************************************************)
EXTENDS Bags, FiniteSets, Integers, Sequences, TLC

\* ------------------------------------------------------------------ bounds

\* Capacity of the store: node ids are 1..MaxNodes.
MaxNodes == 2
\* Number of Ingredient handles (JS objects) alive in the process.
NumHandles == 2

\* --------------------------------------------------------------- JS values

\* JS `undefined`: an absent property, an omitted argument.
Undefined == [t |-> "undefined"]
\* JS `null` (the err argument of a successful callback, an empty handle slot).
Null == [t |-> "null"]
\* A JS string, as the sequence of its characters.
Str(s) == [t |-> "string", s |-> s]

IsString(v) == v.t = "string"
\* JS truthiness of a value that is undefined, null or a string: `!val`.
Falsy(v) == v = Undefined \/ v = Null \/ v = Str(<<>>)

\* The characters of the class [A-Za-z0-9_].
WordChars ==
    { "a", "b", "c", "d", "e", "f", "g", "h", "i", "j", "k", "l", "m",
      "n", "o", "p", "q", "r", "s", "t", "u", "v", "w", "x", "y", "z",
      "A", "B", "C", "D", "E", "F", "G", "H", "I", "J", "K", "L", "M",
      "N", "O", "P", "Q", "R", "S", "T", "U", "V", "W", "X", "Y", "Z",
      "0", "1", "2", "3", "4", "5", "6", "7", "8", "9", "_" }

\* Ingredient.VALIDATION_INFO.name
minLength == 2
maxLength == 16
InfoRequired == TRUE

\* /^[A-Za-z0-9_]+$/.test(val)
PatternTest(s) == Len(s) >= 1 /\ \A i \in 1..Len(s) : s[i] \in WordChars

\* ------------------------------------------------------------------ errors

ValidationError(msg) == [kind |-> "ValidationError", msg |-> msg]
\* A plain `new Error(msg)`.
Error(msg) == [kind |-> "Error", msg |-> msg]
\* neo4j.ClientError with the given Neo4j status code.
ClientError(code) == [kind |-> "ClientError", msg |-> code]
\* Any failure of the driver or the database that is not a ClientError the
\* code looks at (connection refused, timeout, server error).
DbFailure == Error("database failure")

\* -------------------------------------------------------------- validation

\* validateProp without the pattern test.
validatePropMutNoPattern(val, required) ==
    IF Falsy(val)
    THEN IF InfoRequired /\ required THEN ValidationError("Missing") ELSE Null
    ELSE IF Len(val.s) < minLength THEN ValidationError("too short")
    ELSE IF Len(val.s) > maxLength THEN ValidationError("too long")
    ELSE Null

\* validateProp with the pattern tested before the lengths.
validatePropMutPatternFirst(val, required) ==
    IF Falsy(val)
    THEN IF InfoRequired /\ required THEN ValidationError("Missing") ELSE Null
    ELSE IF ~PatternTest(val.s) THEN ValidationError("format")
    ELSE IF Len(val.s) < minLength THEN ValidationError("too short")
    ELSE IF Len(val.s) > maxLength THEN ValidationError("too long")
    ELSE Null

\* validateProp(prop, val, required) for prop = 'name': Null when it returns,
\* the ValidationError it throws otherwise.
validateProp(val, required) ==
    IF Falsy(val)
    THEN IF InfoRequired /\ required THEN ValidationError("Missing") ELSE Null
    ELSE IF Len(val.s) < minLength THEN ValidationError("too short")
    ELSE IF Len(val.s) > maxLength THEN ValidationError("too long")
    ELSE IF ~PatternTest(val.s) THEN ValidationError("format")
    ELSE Null

\* validate(props, required): the error thrown (or Null) and the safe props.
validate(props, required) ==
    [err |-> validateProp(props.name, required),
     safeProps |-> [name |-> props.name]]

\* isConstraintViolation(err)
isConstraintViolation(err) ==
    /\ err # Null
    /\ err.kind = "ClientError"
    /\ err.msg = "Neo.ClientError.Schema.ConstraintViolation"

\* ------------------------------------------------------------------- state

VARIABLES
    nodes,       \* the :Ingredient nodes of the store: records [id, name]
    rels,        \* the :follows relationships: a bag of <<from id, to id>>
    constraint,  \* whether the store has the uniqueness constraint on name
    proc,        \* "starting" (createConstraint in flight), "running", "crashed"
    handles,     \* handle slot -> Null or an Ingredient [_node |-> node]
    requests,    \* handle slot -> Null or the props of the patch that the edit
                 \* route sent through the slot's Ingredient and awaits
    last         \* the last call: its operation, arguments and outcome

vars == <<nodes, rels, constraint, proc, handles, requests, last>>

Handles == 1..NumHandles
NodeIds == 1..MaxNodes

\* new Ingredient(_node)
Ingredient(node) == [_node |-> node]
\* Ingredient.prototype.name
NameOf(ingredient) == ingredient._node.name

\* The call the current JS task made and what it delivered: the operation, the
\* handle slot and argument, the error (thrown, or passed to the callback) or
\* Null, the value passed to the callback, the number of queries sent, and
\* the store and the handles as they were when the call was made.
\* Idle between tasks.
Idle == [op |-> "idle"]
Outcome(op, h, arg, err, via, ret, queries) ==
    [op |-> op, h |-> h, arg |-> arg, err |-> err, via |-> via, ret |-> ret,
     queries |-> queries,
     pre |-> [nodes |-> nodes, rels |-> rels, handles |-> handles]]

\* ------------------------------------------------------------ the database

\* MATCH (n:Ingredient {name: {name}}) on the node set ns.
Match(ns, name) == { n \in ns : IsString(name) /\ n.name = name }

\* The uniqueness constraint on :Ingredient(name) holds of the node set ns
\* (nodes without the property are not constrained).
Unique(ns) ==
    \A a \in ns : \A b \in ns :
        (IsString(a.name) /\ a.name = b.name) => a.id = b.id

\* The id the database gives the next node: the lowest one not in use.
FreeId == CHOOSE i \in NodeIds : /\ i \notin { n.id : n \in nodes }
                                 /\ \A j \in 1..(i - 1) : j \in { n.id : n \in nodes }

\* The orders in which the database may return the rows for the set S.
RowOrders(S) ==
    { q \in [1..Cardinality(S) -> S] : \A i, j \in DOMAIN q : q[i] = q[j] => i = j }

\* The relationships of bag rs without those between the pairs in gone.
WithoutPairs(rs, gone) == [p \in (DOMAIN rs) \ gone |-> rs[p]]

\* Number of :follows relationships from node a to node b.
Count(rs, a, b) == IF <<a, b>> \in DOMAIN rs THEN rs[<<a, b>>] ELSE 0

\* What a query gives its callback and leaves in the store.
Result(err, ns, rs, rows) == [err |-> err, nodes |-> ns, rels |-> rs, rows |-> rows]
Failed(err) == Result(err, nodes, rels, {})

ConstraintViolation == ClientError("Neo.ClientError.Schema.ConstraintViolation")
\* The request body is JSON: a parameter whose value is undefined is left out,
\* and the database rejects a query that uses a parameter it was not given.
ParameterMissing == ClientError("Neo.ClientError.Statement.ParameterMissing")

\* CREATE (ingredient:Ingredient {props}) RETURN ingredient
CypherCreate(props) ==
    IF constraint /\ Match(nodes, props.name) # {}
    THEN Failed(ConstraintViolation)
    ELSE LET n == [id |-> FreeId, name |-> props.name]
         IN Result(Null, nodes \cup {n}, rels, {n})

\* MATCH (ingredient:Ingredient) RETURN ingredient: the name filter forgotten.
CypherGetMutNoFilter(name) ==
    IF name = Undefined THEN Failed(ParameterMissing)
    ELSE Result(Null, nodes, rels, nodes)

\* MATCH (ingredient:Ingredient {name: {name}}) RETURN ingredient
CypherGet(name) ==
    IF name = Undefined THEN Failed(ParameterMissing)
    ELSE Result(Null, nodes, rels, Match(nodes, name))

\* MATCH (ingredient:Ingredient) RETURN ingredient
CypherGetAll == Result(Null, nodes, rels, nodes)

\* MATCH (ingredient:Ingredient {name: {name}})
\* SET ingredient += {props} RETURN ingredient
\* (a property of props that is undefined is left out of the JSON body)
CypherPatch(name, props) ==
    IF name = Undefined THEN Failed(ParameterMissing)
    ELSE LET matched == Match(nodes, name)
             Set(n) == IF props.name = Undefined THEN n
                       ELSE [n EXCEPT !.name = props.name]
             updated == { Set(n) : n \in matched }
             ns == (nodes \ matched) \cup updated
         IN IF constraint /\ ~Unique(ns)
            THEN Failed(ConstraintViolation)
            ELSE Result(Null, ns, rels, updated)

\* The same with (ingredient) -[rel:follows]-> (other): only the outgoing
\* relationships are deleted with the node.
CypherDelMutOutgoing(name) ==
    IF name = Undefined THEN Failed(ParameterMissing)
    ELSE LET gone == { n.id : n \in Match(nodes, name) }
             attached == { p \in DOMAIN rels : p[1] \in gone }
         IN Result(Null, { n \in nodes : n.id \notin gone },
                   WithoutPairs(rels, attached), {})

\* MATCH (ingredient:Ingredient {name: {name}})
\* OPTIONAL MATCH (ingredient) -[rel:follows]- (other)
\* DELETE ingredient, rel
CypherDel(name) ==
    IF name = Undefined THEN Failed(ParameterMissing)
    ELSE LET gone == { n.id : n \in Match(nodes, name) }
             attached == { p \in DOMAIN rels : p[1] \in gone \/ p[2] \in gone }
         IN Result(Null, { n \in nodes : n.id \notin gone },
                   WithoutPairs(rels, attached), {})

\* The same with CREATE in place of MERGE.
CypherFollowMutCreate(thisName, otherName) ==
    IF thisName = Undefined \/ otherName = Undefined THEN Failed(ParameterMissing)
    ELSE LET pairs == { <<a.id, b.id>> : a \in Match(nodes, thisName),
                                         b \in Match(nodes, otherName) }
         IN Result(Null, nodes, rels (+) SetToBag(pairs), {})

\* MATCH (ingredient:Ingredient {name: {thisIngredientname}})
\* MATCH (other:Ingredient {name: {otherIngredientname}})
\* MERGE (ingredient) -[rel:follows]-> (other)
CypherFollow(thisName, otherName) ==
    IF thisName = Undefined \/ otherName = Undefined THEN Failed(ParameterMissing)
    ELSE LET pairs == { <<a.id, b.id>> : a \in Match(nodes, thisName),
                                         b \in Match(nodes, otherName) }
             absent == { p \in pairs : Count(rels, p[1], p[2]) = 0 }
         IN Result(Null, nodes, rels (+) SetToBag(absent), {})

\* MATCH (ingredient:Ingredient {name: {thisIngredientname}})
\* MATCH (other:Ingredient {name: {otherIngredientname}})
\* MATCH (ingredient) -[rel:follows]-> (other)
\* DELETE rel
CypherUnfollow(thisName, otherName) ==
    IF thisName = Undefined \/ otherName = Undefined THEN Failed(ParameterMissing)
    ELSE LET pairs == { <<a.id, b.id>> : a \in Match(nodes, thisName),
                                         b \in Match(nodes, otherName) }
         IN Result(Null, nodes, WithoutPairs(rels, pairs), {})

RECURSIVE CountFrom(_, _)
\* COUNT(rel) over the relationships from the nodes of set from to node b.
CountFrom(from, b) ==
    IF from = {} THEN 0
    ELSE LET a == CHOOSE x \in from : TRUE
         IN Count(rels, a.id, b.id) + CountFrom(from \ {a}, b)

\* MATCH (ingredient:Ingredient {name: {thisIngredientname}})
\* MATCH (other:Ingredient)
\* OPTIONAL MATCH (ingredient) -[rel:follows]-> (other)
\* RETURN other, COUNT(rel)
CypherFollowingAndOthers(thisName) ==
    IF thisName = Undefined THEN Failed(ParameterMissing)
    ELSE LET matched == Match(nodes, thisName)
         IN Result(Null, nodes, rels,
                   IF matched = {} THEN {}
                   ELSE { [other |-> o, count |-> CountFrom(matched, o)] : o \in nodes })

\* db.cypher: the query's result, or a failure of the driver or the database
\* that leaves the store as it was.
Cypher(result, ok) == IF ok THEN result ELSE Failed(DbFailure)

\* ------------------------------------------------------------------ inputs

\* A name one character longer than maxLength.
TooLong == [i \in 1..(maxLength + 1) |-> "x"]

\* The names callers pass: absent, empty, too short, two valid ones, one
\* with a space, one too long.
InputNames ==
    { Undefined, Str(<<>>), Str(<<"a">>), Str(<<"a", "b">>), Str(<<"c", "d">>),
      Str(<<"a", " ", "b">>), Str(TooLong) }

\* The property bags callers pass.
InputProps == { [name |-> v] : v \in InputNames }

\* -------------------------------------------------------------- operations

Alive == proc # "crashed" /\ last = Idle

\* The callback of db.createConstraint with the error logged, not thrown.
RegisterConstraintMutLog ==
    /\ proc = "starting" /\ last = Idle
    /\ UNCHANGED requests
    /\ \E ok \in BOOLEAN :
        LET err == IF ~ok THEN DbFailure
                   ELSE IF ~constraint /\ ~Unique(nodes)
                        THEN ClientError("Neo.ClientError.Schema.ConstraintVerificationFailed")
                        ELSE Null
        IN /\ constraint' = (constraint \/ err = Null)
           /\ proc' = "running"
           /\ last' = Outcome("createConstraint", 0, Null, err, "callback", Null, 1)
    /\ UNCHANGED <<nodes, rels, handles>>

\* The callback of db.createConstraint({label: 'Ingredient', property: 'name'}),
\* issued when the module is loaded: an error is thrown from the callback,
\* which ends the process.
RegisterConstraint ==
    /\ proc = "starting" /\ last = Idle
    /\ UNCHANGED requests
    /\ \E ok \in BOOLEAN :
        LET err == IF ~ok THEN DbFailure
                   ELSE IF ~constraint /\ ~Unique(nodes)
                        THEN ClientError("Neo.ClientError.Schema.ConstraintVerificationFailed")
                        ELSE Null
        IN /\ constraint' = (constraint \/ err = Null)
           /\ proc' = IF err # Null THEN "crashed" ELSE "running"
           /\ last' = Outcome("createConstraint", 0, Null, err,
                              IF err # Null THEN "throw" ELSE "callback", Null, 1)
    /\ UNCHANGED <<nodes, rels, handles>>

\* Ingredient.create(props, callback); the new Ingredient goes to slot h.
Create(h, props) ==
    /\ Alive
    /\ UNCHANGED requests
    /\ LET v == validate(props, FALSE)      \* `required` is not passed
       IN IF v.err # Null
          THEN /\ last' = Outcome("create", h, props, v.err, "throw", Null, 0)
               /\ UNCHANGED <<nodes, rels, constraint, proc, handles>>
          ELSE \E ok \in BOOLEAN :
               /\ \/ ~ok
                  \/ constraint /\ Match(nodes, v.safeProps.name) # {}
                  \/ Cardinality(nodes) < MaxNodes
               /\ LET r == Cypher(CypherCreate(v.safeProps), ok)
                      err == IF isConstraintViolation(r.err)
                             THEN ValidationError("taken") ELSE r.err
                  IN /\ nodes' = r.nodes
                     /\ rels' = r.rels
                     /\ IF err # Null
                        THEN /\ handles' = handles
                             /\ last' = Outcome("create", h, props, err, "callback", Null, 1)
                        ELSE \E row \in r.rows :
                             /\ handles' = [handles EXCEPT ![h] = Ingredient(row)]
                             /\ last' = Outcome("create", h, props, Null, "callback",
                                                Ingredient(row), 1)
               /\ UNCHANGED <<constraint, proc>>

\* Ingredient.get(name, callback); the Ingredient found goes to slot h.
Get(h, name) ==
    /\ Alive
    /\ UNCHANGED requests
    /\ \E ok \in BOOLEAN :
        LET r == Cypher(CypherGet(name), ok)
        IN IF r.err # Null
           THEN /\ handles' = handles
                /\ last' = Outcome("get", h, name, r.err, "callback", Null, 1)
           ELSE IF r.rows = {}
           THEN /\ handles' = handles
                /\ last' = Outcome("get", h, name, Error("No such ingredient"),
                                   "callback", Null, 1)
           ELSE \E row \in r.rows :
                /\ handles' = [handles EXCEPT ![h] = Ingredient(row)]
                /\ last' = Outcome("get", h, name, Null, "callback", Ingredient(row), 1)
    /\ UNCHANGED <<nodes, rels, constraint, proc>>

\* Ingredient.getAll(callback)
GetAll ==
    /\ Alive
    /\ UNCHANGED requests
    /\ \E ok \in BOOLEAN :
        LET r == Cypher(CypherGetAll, ok)
        IN IF r.err # Null
           THEN last' = Outcome("getAll", 0, Null, r.err, "callback", Null, 1)
           ELSE \E results \in RowOrders(r.rows) :
                last' = Outcome("getAll", 0, Null, Null, "callback",
                                [i \in DOMAIN results |-> Ingredient(results[i])], 1)
    /\ UNCHANGED <<nodes, rels, constraint, proc, handles>>

\* patch that sets the name in its own node when it is called, whatever the
\* query gives.
PatchMutLocal(h, props) ==
    /\ Alive
    /\ UNCHANGED requests
    /\ handles[h] # Null
    /\ LET v == validate(props, FALSE)
       IN IF v.err # Null
          THEN /\ last' = Outcome("patch", h, props, v.err, "throw", Null, 0)
               /\ UNCHANGED <<nodes, rels, constraint, proc, handles>>
          ELSE \E ok \in BOOLEAN :
               LET r == Cypher(CypherPatch(NameOf(handles[h]), v.safeProps), ok)
                   err == IF isConstraintViolation(r.err)
                          THEN ValidationError("taken") ELSE r.err
                   local == IF props.name = Undefined THEN handles[h]._node
                            ELSE [handles[h]._node EXCEPT !.name = props.name]
               IN /\ nodes' = r.nodes
                  /\ rels' = r.rels
                  /\ handles' = [handles EXCEPT ![h] = Ingredient(local)]
                  /\ last' = Outcome("patch", h, props,
                                     IF err = Null /\ r.rows = {}
                                     THEN Error("Ingredient has been deleted") ELSE err,
                                     "callback", Null, 1)
                  /\ UNCHANGED <<constraint, proc>>

\* ingredient.patch(props, callback) on the Ingredient in slot h.
Patch(h, props) ==
    /\ Alive
    /\ UNCHANGED requests
    /\ handles[h] # Null
    /\ LET v == validate(props, FALSE)      \* `required` is not passed
       IN IF v.err # Null
          THEN /\ last' = Outcome("patch", h, props, v.err, "throw", Null, 0)
               /\ UNCHANGED <<nodes, rels, constraint, proc, handles>>
          ELSE \E ok \in BOOLEAN :
               LET r == Cypher(CypherPatch(NameOf(handles[h]), v.safeProps), ok)
                   err == IF isConstraintViolation(r.err)
                          THEN ValidationError("taken") ELSE r.err
               IN /\ nodes' = r.nodes
                  /\ rels' = r.rels
                  /\ IF err # Null
                     THEN /\ handles' = handles
                          /\ last' = Outcome("patch", h, props, err, "callback", Null, 1)
                     ELSE IF r.rows = {}
                     THEN /\ handles' = handles
                          /\ last' = Outcome("patch", h, props,
                                             Error("Ingredient has been deleted"),
                                             "callback", Null, 1)
                     ELSE \E row \in r.rows :
                          /\ handles' = [handles EXCEPT ![h] = Ingredient(row)]
                          /\ last' = Outcome("patch", h, props, Null, "callback", Null, 1)
                  /\ UNCHANGED <<constraint, proc>>

\* del that sends its query again when it failed.
DelMutRetry(h) ==
    /\ Alive
    /\ UNCHANGED requests
    /\ handles[h] # Null
    /\ \E ok \in BOOLEAN : \E again \in BOOLEAN :
        LET r == Cypher(CypherDel(NameOf(handles[h])), ok \/ again)
        IN /\ nodes' = r.nodes
           /\ rels' = r.rels
           /\ last' = Outcome("del", h, Null, r.err, "callback", Null,
                              IF ok THEN 1 ELSE 2)
    /\ UNCHANGED <<constraint, proc, handles>>

\* ingredient.del(callback) on the Ingredient in slot h.
Del(h) ==
    /\ Alive
    /\ UNCHANGED requests
    /\ handles[h] # Null
    /\ \E ok \in BOOLEAN :
        LET r == Cypher(CypherDel(NameOf(handles[h])), ok)
        IN /\ nodes' = r.nodes
           /\ rels' = r.rels
           /\ last' = Outcome("del", h, Null, r.err, "callback", Null, 1)
    /\ UNCHANGED <<constraint, proc, handles>>

\* ingredient.follow(other, callback): slot h follows slot o.
Follow(h, o) ==
    /\ Alive
    /\ UNCHANGED requests
    /\ handles[h] # Null /\ handles[o] # Null
    /\ \E ok \in BOOLEAN :
        LET r == Cypher(CypherFollow(NameOf(handles[h]), NameOf(handles[o])), ok)
        IN /\ nodes' = r.nodes
           /\ rels' = r.rels
           /\ last' = Outcome("follow", h, o, r.err, "callback", Null, 1)
    /\ UNCHANGED <<constraint, proc, handles>>

\* ingredient.unfollow(other, callback): slot h unfollows slot o.
Unfollow(h, o) ==
    /\ Alive
    /\ UNCHANGED requests
    /\ handles[h] # Null /\ handles[o] # Null
    /\ \E ok \in BOOLEAN :
        LET r == Cypher(CypherUnfollow(NameOf(handles[h]), NameOf(handles[o])), ok)
        IN /\ nodes' = r.nodes
           /\ rels' = r.rels
           /\ last' = Outcome("unfollow", h, o, r.err, "callback", Null, 1)
    /\ UNCHANGED <<constraint, proc, handles>>

RECURSIVE Partition(_, _, _, _, _)
\* The loop of getFollowingAndOthers' callback over results[i], i = 1..Len.
Partition(ingredient, results, i, following, others) ==
    IF i > Len(results)
    THEN [following |-> following, others |-> others]
    ELSE LET other == Ingredient(results[i].other)
             follows == results[i].count
         IN IF NameOf(ingredient) = NameOf(other)
            THEN Partition(ingredient, results, i + 1, following, others)
            ELSE IF follows # 0
            THEN Partition(ingredient, results, i + 1, Append(following, other), others)
            ELSE Partition(ingredient, results, i + 1, following, Append(others, other))

\* ingredient.getFollowingAndOthers(callback) on the Ingredient in slot h.
GetFollowingAndOthers(h) ==
    /\ Alive
    /\ UNCHANGED requests
    /\ handles[h] # Null
    /\ \E ok \in BOOLEAN :
        LET r == Cypher(CypherFollowingAndOthers(NameOf(handles[h])), ok)
        IN IF r.err # Null
           THEN last' = Outcome("getFollowingAndOthers", h, Null, r.err, "callback", Null, 1)
           ELSE \E results \in RowOrders(r.rows) :
                last' = Outcome("getFollowingAndOthers", h, Null, Null, "callback",
                                Partition(handles[h], results, 1, <<>>, <<>>), 1)
    /\ UNCHANGED <<nodes, rels, constraint, proc, handles>>

\* The callback returns: the task is over.
TaskEnd ==
    /\ last # Idle
    /\ UNCHANGED requests
    /\ last' = Idle
    /\ UNCHANGED <<nodes, rels, constraint, proc, handles>>

Init ==
    /\ nodes = {}
    /\ rels = EmptyBag
    /\ constraint \in BOOLEAN
    /\ proc = "starting"
    /\ handles = [h \in Handles |-> Null]
    /\ requests = [h \in Handles |-> Null]
    /\ last = Idle

Next ==
    \/ RegisterConstraint
    \/ \E h \in Handles : \E props \in InputProps : Create(h, props)
    \/ \E h \in Handles : \E name \in InputNames \ {Undefined} : Get(h, name)
    \/ GetAll
    \/ \E h \in Handles : \E props \in InputProps : Patch(h, props)
    \/ \E h \in Handles : Del(h)
    \/ \E h \in Handles : \E o \in Handles : Follow(h, o)
    \/ \E h \in Handles : \E o \in Handles : Unfollow(h, o)
    \/ \E h \in Handles : GetFollowingAndOthers(h)
    \/ TaskEnd

Spec == Init /\ [][Next]_vars

\* ----------------------------------------------------------- the validator

\* Longest value of which every string over ValidatorChars is tried.
ShortLen == 4

\* A word character that is a letter, one that is not, and a character out
\* of the class.
ValidatorChars == { "a", "_", " " }

\* n - 1 times "x" and then the character c.
Padded(n, c) == [i \in 1..n |-> IF i < n THEN "x" ELSE c]

\* The values validateProp is given: undefined, null, every string of up to
\* ShortLen characters, and strings around maxLength.
ValidatorValues ==
    { Undefined, Null }
    \cup { Str(s) : s \in UNION { [1..n -> ValidatorChars] : n \in 0..ShortLen } }
    \cup { Str(Padded(n, c)) : n \in (maxLength - 1)..(maxLength + 1),
                              c \in ValidatorChars }

\* validateProp('name', val, required): it returns, or throws a ValidationError.
ValidateProp(val, required) ==
    /\ last = Idle
    /\ LET err == validateProp(val, required)
       IN last' = Outcome("validateProp", 0, [val |-> val, required |-> required],
                          err, IF err # Null THEN "throw" ELSE "return", Null, 0)
    /\ UNCHANGED <<nodes, rels, constraint, proc, handles, requests>>

ValidatorNext ==
    \/ \E val \in ValidatorValues : \E required \in BOOLEAN : ValidateProp(val, required)
    \/ TaskEnd

ValidatorSpec == Init /\ [][ValidatorNext]_vars

\* ------------------------------------------------------------------ claims

IsKind(err, kind) == err # Null /\ err.kind = kind

\* The database answered the query of the last call.
Answered == last.err # DbFailure

Ids(ns) == { n.id : n \in ns }

Range(q) == { q[i] : i \in DOMAIN q }

\* A name within the length bounds 2-16 and of the pattern.
ValidName(v) ==
    /\ IsString(v)
    /\ Len(v.s) >= 2 /\ Len(v.s) <= 16
    /\ \A i \in 1..Len(v.s) : v.s[i] \in WordChars

\* A name that breaks a rule: too short, too long or out of pattern (the
\* rules skip an absent or empty value).
ViolatesRules(v) ==
    /\ IsString(v)
    /\ Len(v.s) >= 1
    /\ \/ Len(v.s) < 2
       \/ Len(v.s) > 16
       \/ \E i \in 1..Len(v.s) : v.s[i] \notin WordChars

\* The pairs (A, B) of stored nodes that slots h and o named when the last
\* call was made.
PairsOf(h, o) ==
    { <<a.id, b.id>> : a \in Match(last.pre.nodes, NameOf(last.pre.handles[h])),
                       b \in Match(last.pre.nodes, NameOf(last.pre.handles[o])) }

\* C1: in every reachable state no two stored entities have the same name
\* (stated for the valid names).
C1_NamesUnique ==
    \A a \in nodes : \A b \in nodes :
        a.id # b.id => ~(ValidName(a.name) /\ a.name = b.name)

\* C2: create with a name that a stored entity already has fails with the
\* uniqueness error (ConflictError in the spec's taxonomy, reported by the code
\* as the ValidationError "name is taken"), and afterwards exactly one entity
\* with that name exists.  Stated for the valid names and the calls the
\* database answers.
C2_DuplicateCreateFails ==
    (/\ last.op = "create"
     /\ Answered
     /\ ValidName(last.arg.name)
     /\ Match(last.pre.nodes, last.arg.name) # {})
    => /\ IsKind(last.err, "ConflictError") \/ last.err = ValidationError("taken")
       /\ Cardinality(Match(nodes, last.arg.name)) = 1

\* C3: create with an absent or empty name fails with a ValidationError and
\* adds no node to the store (whatever the database would answer).
C3_CreateRequiresName ==
    (last.op = "create" /\ Falsy(last.arg.name) /\ Answered)
    => /\ IsKind(last.err, "ValidationError")
       /\ nodes = last.pre.nodes

\* C4: a successful create of a valid name not yet stored leaves a node of
\* exactly that name and returns a handle of that name, and get of a valid
\* stored name returns an entity whose name is exactly that name.
C4_CreateThenGet ==
    /\ (/\ last.op = "create"
        /\ last.err = Null
        /\ ValidName(last.arg.name)
        /\ Match(last.pre.nodes, last.arg.name) = {})
       => /\ NameOf(last.ret) = last.arg.name
          /\ last.ret._node \in nodes
          /\ handles[last.h] = last.ret
    /\ (/\ last.op = "get"
        /\ Answered
        /\ ValidName(last.arg)
        /\ Match(last.pre.nodes, last.arg) # {})
       => /\ last.err = Null
          /\ NameOf(last.ret) = last.arg
          /\ handles[last.h] = last.ret

\* get returned the entity of a valid name that another handle (such as the
\* one create returned) holds too.
C4_Witness ==
    /\ last.op = "get"
    /\ last.err = Null
    /\ ValidName(last.arg)
    /\ NameOf(last.ret) = last.arg
    /\ \E o \in Handles : o # last.h /\ handles[o] = last.ret

\* C5: both endpoints of every follows edge are stored entities, and after a
\* del that completed no stored entity has the name the handle gave.
C5_NoDanglingEdges ==
    /\ \A p \in DOMAIN rels : p[1] \in Ids(nodes) /\ p[2] \in Ids(nodes)
    /\ (last.op = "del" /\ last.err = Null)
       => Match(nodes, NameOf(last.pre.handles[last.h])) = {}

\* del removed an entity that had an incoming and an outgoing edge.
C5_Witness ==
    /\ last.op = "del"
    /\ last.err = Null
    /\ \E n \in last.pre.nodes \ nodes :
        /\ \E p \in DOMAIN last.pre.rels : p[1] = n.id /\ p[2] # n.id
        /\ \E p \in DOMAIN last.pre.rels : p[2] = n.id /\ p[1] # n.id

\* C6: get of a name no stored entity has fails with a NotFoundError, a kind
\* of its own, and returns no entity.
C6_GetAbsentIsNotFound ==
    (/\ last.op = "get"
     /\ Answered
     /\ Match(last.pre.nodes, last.arg) = {})
    => /\ IsKind(last.err, "NotFoundError")
       /\ last.ret = Null

\* C7: there is at most one follows edge per ordered pair, and follow(A, B)
\* when the edge exists succeeds and leaves the store unchanged.
C7_AtMostOneEdge ==
    /\ \A p \in DOMAIN rels : rels[p] <= 1
    /\ (/\ last.op = "follow"
        /\ Answered
        /\ PairsOf(last.h, last.arg) # {}
        /\ \A p \in PairsOf(last.h, last.arg) : Count(last.pre.rels, p[1], p[2]) >= 1)
       => /\ last.err = Null
          /\ rels = last.pre.rels
          /\ nodes = last.pre.nodes

\* follow(A, B) was called when the edge from A to B existed.
C7_Witness ==
    /\ last.op = "follow"
    /\ last.err = Null
    /\ PairsOf(last.h, last.arg) # {}
    /\ \A p \in PairsOf(last.h, last.arg) : Count(last.pre.rels, p[1], p[2]) = 1

\* C8: unfollow(A, B) when there is no follows edge from A to B completes
\* without error and leaves nodes and edges unchanged.
C8_UnfollowWithoutEdge ==
    (/\ last.op = "unfollow"
     /\ Answered
     /\ \A p \in PairsOf(last.h, last.arg) : Count(last.pre.rels, p[1], p[2]) = 0)
    => /\ last.err = Null
       /\ nodes = last.pre.nodes
       /\ rels = last.pre.rels

\* C9: getFollowingAndOthers on a stored entity A returns, without repeats,
\* in `following` exactly the other stored entities A has an edge to and in
\* `others` exactly the other stored entities A has no edge to.  Stated for
\* the subjects that have a valid name.
C9_Partition ==
    (/\ last.op = "getFollowingAndOthers"
     /\ Answered
     /\ ValidName(NameOf(last.pre.handles[last.h]))
     /\ last.pre.handles[last.h]._node \in nodes)
    => /\ last.err = Null
       /\ LET A == last.pre.handles[last.h]._node
              F == last.ret.following
              O == last.ret.others
          IN /\ Range(F) = { Ingredient(b) :
                             b \in { n \in nodes \ {A} : Count(rels, A.id, n.id) >= 1 } }
             /\ Range(O) = { Ingredient(b) :
                             b \in { n \in nodes \ {A} : Count(rels, A.id, n.id) = 0 } }
             /\ Cardinality(Range(F)) = Len(F)
             /\ Cardinality(Range(O)) = Len(O)

\* C10: patch with a name that is too short, too long or out of pattern fails
\* with a ValidationError, sends no query, and leaves the store and the
\* handles unchanged.
C10_PatchInvalidName ==
    (last.op = "patch" /\ ViolatesRules(last.arg.name))
    => /\ IsKind(last.err, "ValidationError")
       /\ last.queries = 0
       /\ nodes = last.pre.nodes
       /\ rels = last.pre.rels
       /\ handles = last.pre.handles

\* patch was called on a stored entity with a name that holds a space.
C10_Witness ==
    /\ last.op = "patch"
    /\ last.arg.name = Str(<<"a", " ", "b">>)
    /\ IsKind(last.err, "ValidationError")
    /\ last.pre.handles[last.h]._node \in nodes

\* -------------------------------------------------------------- the routes

\* res.redirect(URL.format({pathname, query})), or res.redirect(pathname)
\* when query is Null.
Redirect(pathname, query) == [resp |-> "redirect", pathname |-> pathname, query |-> query]
\* next(err)
next(err) == [resp |-> "next", err |-> err]
\* No response: an exception left the code of the route.
Thrown(err) == [resp |-> "exception", err |-> err]

\* getIngredientURL(ingredient): '/ingredients/' + the name.
getIngredientURL(ingredient) == <<"ingredients", NameOf(ingredient)>>

\* exports.create: POST /ingredients with req.body.name = name.  A throw of
\* Ingredient.create leaves exports.create (the framework's router catches it).
exports_create(name) ==
    /\ Alive
    /\ UNCHANGED <<constraint, proc, handles, requests>>
    /\ LET props == [name |-> name]
           req == [params |-> Null, body |-> props]
           v == validate(props, FALSE)      \* `required` is not passed
       IN IF v.err # Null
          THEN /\ last' = Outcome("exports.create", 0, req, v.err, "throw", Thrown(v.err), 0)
               /\ UNCHANGED <<nodes, rels>>
          ELSE \E ok \in BOOLEAN :
               /\ \/ ~ok
                  \/ constraint /\ Match(nodes, v.safeProps.name) # {}
                  \/ Cardinality(nodes) < MaxNodes
               /\ LET r == Cypher(CypherCreate(v.safeProps), ok)
                      err == IF isConstraintViolation(r.err)
                             THEN ValidationError("taken") ELSE r.err
                  IN /\ nodes' = r.nodes
                     /\ rels' = r.rels
                     /\ IF err # Null
                        THEN last' = Outcome("exports.create", 0, req, err, "callback",
                                             IF err.kind = "ValidationError"
                                             THEN Redirect(<<"ingredients">>,
                                                           [name |-> name, error |-> err.msg])
                                             ELSE next(err), 1)
                        ELSE \E row \in r.rows :
                             last' = Outcome("exports.create", 0, req, Null, "callback",
                                             Redirect(getIngredientURL(Ingredient(row)), Null), 1)

\* exports.edit: POST /ingredients/:name with req.params.name = name and
\* req.body = body, up to the return of Ingredient.get's callback, which
\* calls ingredient.patch(req.body, ...) on the Ingredient found (kept in slot
\* h).  A throw of patch there is caught by nobody: the process ends.
exports_edit(h, name, body) ==
    /\ Alive
    /\ requests[h] = Null
    /\ UNCHANGED <<nodes, rels, constraint>>
    /\ \E ok \in BOOLEAN :
        LET r == Cypher(CypherGet(name), ok)
            req == [params |-> name, body |-> body]
            err == IF r.err = Null /\ r.rows = {}
                   THEN Error("No such ingredient") ELSE r.err
        IN IF err # Null
           THEN /\ last' = Outcome("exports.edit", h, req, err, "callback", next(err), 1)
                /\ UNCHANGED <<proc, handles, requests>>
           ELSE \E row \in r.rows :
                LET v == validate(body, FALSE)      \* `required` is not passed
                IN IF v.err # Null
                   THEN /\ last' = Outcome("exports.edit", h, req, v.err, "throw",
                                           Thrown(v.err), 1)
                        /\ proc' = "crashed"
                        /\ UNCHANGED <<handles, requests>>
                   ELSE /\ handles' = [handles EXCEPT ![h] = Ingredient(row)]
                        /\ requests' = [requests EXCEPT ![h] = v.safeProps]
                        /\ last' = Outcome("exports.edit", h, req, Null, "pending", Null, 1)
                        /\ UNCHANGED proc

\* exports.edit, the callback of the patch sent through slot h.
exports_edit_callback(h) ==
    /\ Alive
    /\ requests[h] # Null
    /\ UNCHANGED <<constraint, proc>>
    /\ \E ok \in BOOLEAN :
        LET r == Cypher(CypherPatch(NameOf(handles[h]), requests[h]), ok)
            req == [params |-> NameOf(handles[h]), body |-> requests[h]]
            err == IF isConstraintViolation(r.err) THEN ValidationError("taken")
                   ELSE IF r.err = Null /\ r.rows = {}
                   THEN Error("Ingredient has been deleted")
                   ELSE r.err
        IN /\ nodes' = r.nodes
           /\ rels' = r.rels
           /\ requests' = [requests EXCEPT ![h] = Null]
           /\ IF err # Null
              THEN /\ handles' = handles
                   /\ last' = Outcome("exports.edit callback", h, req, err, "callback",
                                      IF err.kind = "ValidationError"
                                      THEN Redirect(getIngredientURL(handles[h]),
                                                    [name |-> requests[h].name,
                                                     error |-> err.msg])
                                      ELSE next(err), 1)
              ELSE \E row \in r.rows :
                   /\ handles' = [handles EXCEPT ![h] = Ingredient(row)]
                   /\ last' = Outcome("exports.edit callback", h, req, Null, "callback",
                                      Redirect(getIngredientURL(Ingredient(row)), Null), 1)

RouteNext ==
    \/ RegisterConstraint
    \/ \E name \in InputNames : exports_create(name)
    \/ \E h \in Handles : \E name \in InputNames \ {Undefined} :
           \E body \in InputProps : exports_edit(h, name, body)
    \/ \E h \in Handles : exports_edit_callback(h)
    \/ TaskEnd

RouteSpec == Init /\ [][RouteNext]_vars

\* C11: patch with an empty property bag on an entity that is still stored
\* succeeds and leaves every node and every edge of the store unchanged.
C11_EmptyPatchIsNoOp ==
    (/\ last.op = "patch"
     /\ Answered
     /\ last.arg.name = Undefined
     /\ last.pre.handles[last.h]._node \in last.pre.nodes)
    => /\ last.err = Null
       /\ nodes = last.pre.nodes
       /\ rels = last.pre.rels

\* C12: patch that would rename a stored entity to the name another stored
\* entity has fails with the ValidationError "name is taken" and leaves the
\* store and the handles unchanged.  Stated for valid names and the calls the
\* database answers.
C12_RenameToTakenName ==
    (/\ last.op = "patch"
     /\ Answered
     /\ ValidName(last.arg.name)
     /\ ValidName(NameOf(last.pre.handles[last.h]))
     /\ NameOf(last.pre.handles[last.h]) # last.arg.name
     /\ last.pre.handles[last.h]._node \in last.pre.nodes
     /\ \E n \in last.pre.nodes :
            n.id # last.pre.handles[last.h]._node.id /\ n.name = last.arg.name)
    => /\ last.err = ValidationError("taken")
       /\ nodes = last.pre.nodes
       /\ handles = last.pre.handles

\* C13: patch through a handle whose node is no longer stored (deleted, or
\* renamed away) fails with the "has been deleted" error after one query, and
\* leaves the store and the handles unchanged.  Stated for renames to a valid
\* name, handles of a valid name and the calls the database answers.
C13_PatchOnVanishedNode ==
    (/\ last.op = "patch"
     /\ Answered
     /\ ValidName(last.arg.name)
     /\ ValidName(NameOf(last.pre.handles[last.h]))
     /\ last.pre.handles[last.h]._node \notin last.pre.nodes)
    => /\ last.err = Error("Ingredient has been deleted")
       /\ last.queries = 1
       /\ nodes = last.pre.nodes
       /\ handles = last.pre.handles

\* C14: validateProp reports at most one violation, the first in the order
\* required and missing, too short, too long, pattern mismatch; an absent or
\* empty value skips the length and pattern checks and fails only when
\* `required` is set (the name is a required field).
C14_FirstViolationInOrder ==
    last.op = "validateProp"
    => LET val == last.arg.val
           absent == val \in { Undefined, Null, Str(<<>>) }
           short == ~absent /\ Len(val.s) < 2
           long == ~absent /\ Len(val.s) > 16
           mismatch == ~absent /\ \E i \in 1..Len(val.s) : val.s[i] \notin WordChars
       IN last.err = IF absent
                     THEN IF last.arg.required THEN ValidationError("Missing") ELSE Null
                     ELSE IF short THEN ValidationError("too short")
                     ELSE IF long THEN ValidationError("too long")
                     ELSE IF mismatch THEN ValidationError("format")
                     ELSE Null

\* validateProp was given a value that is too short and out of the pattern,
\* and reported it as too short.
C14_Witness ==
    /\ last.op = "validateProp"
    /\ last.arg.val = Str(<<" ">>)
    /\ last.err = ValidationError("too short")

\* C15: no create or patch query is executed before the registration of the
\* uniqueness constraint has completed successfully.
C15_BootstrapBlocks ==
    (last.op \in { "create", "patch" } /\ last.queries >= 1) => proc = "running"

\* C16: when registering the constraint reports an error the process
\* terminates, and after that no operation is started or completes.
C16_FailsClosed ==
    /\ (last.op = "createConstraint" /\ last.err # Null) => proc = "crashed"
    /\ proc = "crashed"
       => /\ last.op \in { "idle", "createConstraint" }
          /\ last.op = "createConstraint"
             => (last.err # Null /\ nodes = last.pre.nodes /\ rels = last.pre.rels)

\* Registering the constraint failed on a store that operations had already
\* written to.
C16_Witness ==
    /\ last.op = "createConstraint"
    /\ last.err # Null
    /\ proc = "crashed"
    /\ nodes # {}

\* The operations of the repository.
RepositoryOps ==
    { "create", "get", "getAll", "patch", "del", "follow", "unfollow",
      "getFollowingAndOthers" }

C18_HandleRefresh ==
    /\ last.op \in { "createConstraint", "getAll", "del", "follow", "unfollow",
                     "getFollowingAndOthers" }
       => handles = last.pre.handles
    /\ last.op \in { "create", "get", "patch" }
       => \A o \in Handles \ { last.h } : handles[o] = last.pre.handles[o]
    /\ (last.op = "patch" /\ last.err # Null) => handles = last.pre.handles
    /\ (last.op = "patch" /\ last.err = Null)
       => /\ handles[last.h]._node \in nodes
          /\ handles[last.h]._node.id
                \in Ids(Match(last.pre.nodes, NameOf(last.pre.handles[last.h])))
          /\ NameOf(handles[last.h]) = IF last.arg.name = Undefined
                                       THEN NameOf(last.pre.handles[last.h])
                                       ELSE last.arg.name

\* A patch renamed a stored entity and the handle took the new name.
C18_Witness ==
    /\ last.op = "patch"
    /\ last.err = Null
    /\ ValidName(last.arg.name)
    /\ NameOf(last.pre.handles[last.h]) # last.arg.name
    /\ NameOf(handles[last.h]) = last.arg.name
    /\ handles[last.h]._node \in nodes

\* C20: del, follow and unfollow through a handle, or towards a handle, whose
\* node a del has removed from the store complete without error and leave
\* nodes and edges unchanged.  Stated for handles of a valid name and the
\* calls the database answers.
C20_StaleHandleIsNoOp ==
    (/\ last.op \in { "del", "follow", "unfollow" }
     /\ Answered
     /\ LET involved == IF last.op = "del" THEN { last.h } ELSE { last.h, last.arg }
        IN /\ \A o \in involved : ValidName(NameOf(last.pre.handles[o]))
           /\ \E o \in involved :
                  last.pre.handles[o]._node.id \notin Ids(last.pre.nodes))
    => /\ last.err = Null
       /\ nodes = last.pre.nodes
       /\ rels = last.pre.rels

\* C19: a request to the create route or the edit route (whose entity is
\* found) with a name that is too short, too long or out of pattern is
\* answered by the redirect to the form with the ValidationError's message
\* and the submitted name: no exception leaves the route, next is not called.
C19_ValidationFailureRedirects ==
    (/\ last.op \in { "exports.create", "exports.edit" }
     /\ Answered
     /\ ViolatesRules(last.arg.body.name)
     /\ last.op = "exports.edit" => Match(last.pre.nodes, last.arg.params) # {})
    => /\ IsKind(last.err, "ValidationError")
       /\ last.ret.resp = "redirect"
       /\ last.ret.query = [name |-> last.arg.body.name, error |-> last.err.msg]

====
